---- MODULE Spec2Model ----
(***************************************************************************)
(* DNS-Scanner: the scan-and-probe pipeline of server/routes.ts and the    *)
(* in-memory store of server/storage.ts.                                   *)
(*                                                                         *)
(* Text that the code inspects character by character (domain names, URLs, *)
(* response bodies, link texts) is a sequence of one-character strings, so *)
(* that toLowerCase, includes, startsWith and the hostname pattern are     *)
(* computed as the code computes them.  Opaque text (registration status,  *)
(* owner, age, error messages) is a TLA+ string.                           *)
(***************************************************************************)
EXTENDS Integers, Sequences, FiniteSets, TLC

VARIABLES
    \* ---- MemStorage
    domainScans,      \* Map<string, DomainScan> in insertion order
    clock,            \* the value new Date() returns
    \* ---- POST /api/scan-domains
    pc,               \* position of the handler
    pages,            \* req.body.pages
    page,             \* loop variable of the page loop
    allDomainEntries, \* the accumulator of the run
    probePc,          \* per entry: position of its checkPromises task
    caught,           \* the error the outer catch received
    response,         \* what res.json was given
    \* ---- history of the current run (not program state)
    fetchLog,         \* markup returned by each successful page fetch, in order
    fetchFailedAt,    \* page index whose fetch failed, 0 when none
    delays,           \* number of pacing delays taken
    attempts,         \* per entry: the GET requests its probe made, with outcomes
    createCalls,      \* createDomainScan calls of the run, with outcome
    fallbackUsed,     \* number of times the fallback block ran
    fallbackLog,      \* markup returned by the fallback fetch
    requests,         \* page indices the page loop has requested, in order
    responsesSent,    \* number of res.json calls of the run that went out
    \* ---- POST /api/check-domain
    cdPc, cdDomain, cdAttempts, cdResponse,
    \* ---- GET /api/latest-scan and GET /api/scans
    lastQuery,        \* the last read of the store: what it asked, saw and got
    \* ---- two calls of POST /api/scan-domains in progress at once
    runs              \* per call: its position and its local variables

vars == << domainScans, clock, pc, pages, page, allDomainEntries, probePc,
           caught, response, fetchLog, fetchFailedAt, delays, attempts,
           createCalls, fallbackUsed, fallbackLog, requests, responsesSent,
           cdPc, cdDomain, cdAttempts, cdResponse, lastQuery, runs >>

scanVars == << domainScans, clock, pc, pages, page, allDomainEntries, probePc,
               caught, response, fetchLog, fetchFailedAt, delays, attempts,
               createCalls, fallbackUsed, fallbackLog, requests, responsesSent >>

cdVars == << cdPc, cdDomain, cdAttempts, cdResponse >>

queryVars == << lastQuery >>

runVars == << runs >>

-----------------------------------------------------------------------------
(* Bounds of the model *)

MaxPages == 2

-----------------------------------------------------------------------------
(* Strings *)

\* an absent optional property (websiteError?: string, error?: string)
undefined == "<undefined>"

UpperCase == <<"A", "B", "C", "D", "E", "F", "G", "H", "I", "J", "K", "L", "M", "N", "O", "P", "Q", "R", "S", "T", "U", "V", "W", "X", "Y", "Z">>
LowerCase == <<"a", "b", "c", "d", "e", "f", "g", "h", "i", "j", "k", "l", "m", "n", "o", "p", "q", "r", "s", "t", "u", "v", "w", "x", "y", "z">>
Digits == <<"0", "1", "2", "3", "4", "5", "6", "7", "8", "9">>

Range(s) == { s[i] : i \in 1..Len(s) }

toLowerCaseChar(c) ==
    IF \E i \in 1..Len(UpperCase) : UpperCase[i] = c
    THEN LowerCase[CHOOSE i \in 1..Len(UpperCase) : UpperCase[i] = c]
    ELSE c

toLowerCase(s) == [ i \in 1..Len(s) |-> toLowerCaseChar(s[i]) ]

includes(s, sub) ==
    \E i \in 0..(Len(s) - Len(sub)) : SubSeq(s, i + 1, i + Len(sub)) = sub

startsWith(s, prefix) ==
    Len(s) >= Len(prefix) /\ SubSeq(s, 1, Len(prefix)) = prefix

-----------------------------------------------------------------------------
(* checkWebsiteStatus *)

UrlSignatures ==
    { <<"s", "e", "c", "u", "r", "l", "y">>, <<"b", "l", "o", "c", "k", "e", "d">>, <<"f", "i", "l", "t", "e", "r">>, <<"w", "e", "b", "s", "e", "n", "s", "e">>, <<"l", "i", "g", "h", "t", "s", "p", "e", "e", "d">>,
      <<"b", "a", "r", "r", "a", "c", "u", "d", "a">> }

BodySignatures ==
    { <<"s", "e", "c", "u", "r", "l", "y">>, <<"t", "h", "i", "s", " ", "s", "i", "t", "e", " ", "h", "a", "s", " ", "b", "e", "e", "n", " ", "b", "l", "o", "c", "k", "e", "d">>, <<"a", "c", "c", "e", "s", "s", " ", "d", "e", "n", "i", "e", "d">>,
      <<"c", "o", "n", "t", "e", "n", "t", " ", "f", "i", "l", "t", "e", "r", "e", "d">>, <<"b", "l", "o", "c", "k", "e", "d", " ", "b", "y">>, <<"w", "e", "b", "s", "i", "t", "e", " ", "b", "l", "o", "c", "k", "e", "d">>,
      <<"c", "o", "n", "t", "e", "n", "t", " ", "f", "i", "l", "t", "e", "r">>, <<"w", "e", "b", "s", "e", "n", "s", "e">>, <<"l", "i", "g", "h", "t", "s", "p", "e", "e", "d">>, <<"b", "a", "r", "r", "a", "c", "u", "d", "a">> }

BlockedError == "Blocked by security filter (Securly/similar)"
ConnectionFailedError == "Connection failed"

\* response.data as axios hands it over: text, or a parsed JSON value
TextData(t) == [ kind |-> "string", text |-> t ]
ObjectData == [ kind |-> "structured", text |-> << >> ]

SampleStatus == { 200, 304, 399, 400, 404, 499, 500, 503 }
SampleResponseUrl == { << >>, <<"h", "t", "t", "p", ":", "/", "/", "S", "e", "c", "u", "r", "l", "y", ".", "e", "x", "a", "m", "p", "l", "e", "/", "b">> }
SampleData ==
    { TextData(<< >>), TextData(<<"<", "h", "1", ">", "o", "k", "<", "/", "h", "1", ">">>), TextData(<<"A", "c", "c", "e", "s", "s", " ", "D", "e", "n", "i", "e", "d">>),
      ObjectData }

\* what one axios.get of the prober can settle with
Responses ==
    [ kind : {"response"}, status : SampleStatus,
      responseUrl : SampleResponseUrl, data : SampleData ]
TransportFailures ==
    { [ kind |-> k, status |-> 0, responseUrl |-> << >>, data |-> TextData(<< >>) ]
      : k \in {"error", "timeout"} }
Outcomes == Responses \cup TransportFailures

\* mutant: the secure variant is tried first
ProbeUrlsHttpsFirst(domain) == << <<"h", "t", "t", "p", "s", ":", "/", "/">> \o domain, <<"h", "t", "t", "p", ":", "/", "/">> \o domain >>

ProbeUrls(domain) == << <<"h", "t", "t", "p", ":", "/", "/">> \o domain, <<"h", "t", "t", "p", "s", ":", "/", "/">> \o domain >>

\* mutant: every status is accepted
validateStatusAny(status) == status < 600

validateStatus(status) == status < 500

\* axios.get resolves; otherwise it rejects and the inner catch continues
Resolves(o) == o.kind = "response" /\ validateStatus(o.status)

finalUrl(url, o) == IF o.responseUrl # << >> THEN o.responseUrl ELSE url

\* (response.data || '').toLowerCase() throws on a value that is no string
LowerCasingThrows(o) == o.data.kind # "string"

responseText(o) == toLowerCase(o.data.text)

HasSignature(url, o) ==
    \/ \E s \in UrlSignatures : includes(toLowerCase(finalUrl(url, o)), s)
    \/ \E s \in BodySignatures : includes(responseText(o), s)

\* mutant: the lower limit of the client-error range is exclusive
IsClientErrorAbove400(status) == status > 400 /\ status < 500

IsClientError(status) == status >= 400 /\ status < 500

HttpError(status) == "HTTP " \o ToString(status)

\* what checkWebsiteStatus has come to: a returned classification (done), or none yet;
\* threw marks a rejection of the promise, which no path of the function produces
Determination(st, err) ==
    [ done |-> TRUE, threw |-> FALSE, status |-> st, error |-> err ]
NoDetermination ==
    [ done |-> FALSE, threw |-> FALSE, status |-> "broken", error |-> undefined ]

\* mutant: the status code is looked at before the filter signatures
TryUrlStatusFirst(url, o) ==
    IF ~Resolves(o) THEN NoDetermination
    ELSE IF LowerCasingThrows(o) THEN NoDetermination
    ELSE IF IsClientError(o.status) THEN Determination("broken", HttpError(o.status))
    ELSE IF HasSignature(url, o) THEN Determination("broken", BlockedError)
    ELSE Determination("working", undefined)

\* one iteration of the loop over the two URL variants
TryUrl(url, o) ==
    IF ~Resolves(o) THEN NoDetermination
    ELSE IF LowerCasingThrows(o) THEN NoDetermination
    ELSE IF HasSignature(url, o) THEN Determination("broken", BlockedError)
    ELSE IF IsClientError(o.status) THEN Determination("broken", HttpError(o.status))
    ELSE Determination("working", undefined)

\* mutant: the final result carries no error text
ExhaustedNoError == Determination("broken", undefined)

\* after the loop: both variants failed
Exhausted == Determination("broken", ConnectionFailedError)

\* mutant: the loop gives up after the first variant that yields no determination
AfterAttemptNoRetry(urls, n, o) ==
    LET r == TryUrl(urls[n], o)
    IN  IF r.done THEN r ELSE Exhausted

\* the result of the probe once the attempt on urls[n] has settled with o
AfterAttempt(urls, n, o) ==
    LET r == TryUrl(urls[n], o)
    IN  IF r.done THEN r
        ELSE IF n < Len(urls) THEN NoDetermination
        ELSE Exhausted

Attempt(url, o) == [ url |-> url, outcome |-> o ]

-----------------------------------------------------------------------------
(* POST /api/check-domain *)

SampleDomains == { << >>, <<"a", ".", "i", "o">>, <<"F", "i", "l", "t", "e", "r", ".", "i", "o">> }

CheckDomainResponse(domain, r) ==
    [ code |-> 200, success |-> TRUE, domain |-> domain,
      websiteStatus |-> r.status, websiteError |-> r.error, error |-> "" ]
DomainRequired ==
    [ code |-> 400, success |-> FALSE, domain |-> << >>,
      websiteStatus |-> "", websiteError |-> undefined, error |-> "Domain is required" ]
\* the handler's own catch: error.message with status 500
CheckDomainFailed ==
    [ code |-> 500, success |-> FALSE, domain |-> << >>,
      websiteStatus |-> "", websiteError |-> undefined,
      error |-> "Unknown error occurred" ]
NoCheckDomainResponse ==
    [ code |-> 0, success |-> FALSE, domain |-> << >>,
      websiteStatus |-> "", websiteError |-> undefined, error |-> "" ]

CheckDomain(domain) ==
    /\ cdPc = "idle"
    /\ cdDomain' = domain
    /\ cdAttempts' = << >>
    /\ IF domain = << >>
       THEN /\ cdPc' = "done"
            /\ cdResponse' = DomainRequired
       ELSE /\ cdPc' = "request"
            /\ UNCHANGED cdResponse
    /\ UNCHANGED << scanVars, queryVars, runVars >>

\* the pending axios.get of checkWebsiteStatus settles with o
CheckDomainSettle(o) ==
    /\ cdPc = "request"
    /\ LET urls == ProbeUrls(cdDomain)
           n == Len(cdAttempts) + 1
           r == AfterAttempt(urls, n, o)
       IN  /\ cdAttempts' = Append(cdAttempts, Attempt(urls[n], o))
           /\ IF r.done
              THEN /\ cdPc' = "done"
                   /\ cdResponse' = IF r.threw THEN CheckDomainFailed
                                    ELSE CheckDomainResponse(cdDomain, r)
              ELSE UNCHANGED << cdPc, cdResponse >>
    /\ UNCHANGED << cdDomain >>
    /\ UNCHANGED << scanVars, queryVars, runVars >>

-----------------------------------------------------------------------------
(* Registry markup *)

\* one <tr>: its class, its number of <td>, and the trimmed texts the handler reads
Row(cls, cells, domain, status, owner, age, hosts) ==
    [ cls |-> cls, cells |-> cells, domain |-> domain, status |-> status,
      owner |-> owner, age |-> age, hosts |-> hosts ]

\* one page: its table rows and the texts of its a[href] elements
Markup(rows, links) == [ rows |-> rows, links |-> links ]

PageA ==
    Markup(<< Row("trl", 4, <<"a", ".", "i", "o">>, "public", "alice", "3 years", 12),
              Row("trd", 4, <<"b", ".", "i", "o">>, "private", "bob", "1 year", 0),
              Row("trl", 4, <<"a", ".", "i", "o">>, "stealth", "mallory", "2 days", 7) >>,
           << <<"a", ".", "i", "o">>, <<"b", ".", "i", "o">>, <<"a", ".", "i", "o">> >>)

PageB ==
    Markup(<< Row("trd", 4, <<"b", ".", "i", "o">>, "public", "carol", "9 years", 3),
              Row("trl", 3, <<"c", ".", "i", "o">>, "public", "dave", "", 0),
              Row("trl", 4, << >>, "public", "erin", "5 years", 0),
              Row("hdr", 4, <<"d", ".", "i", "o">>, "public", "frank", "5 years", 0),
              Row("trl", 4, <<"e", ".", "i", "o">>, "", "grace", "5 years", 0),
              Row("trd", 4, <<"F", "i", "l", "t", "e", "r", ".", "i", "o">>, "public", "heidi", "4 years", 1) >>,
           << <<"b", ".", "i", "o">>, <<"c", ".", "i", "o">>, <<"d", ".", "i", "o">>, <<"e", ".", "i", "o">>, <<"F", "i", "l", "t", "e", "r", ".", "i", "o">> >>)

PageLinks ==
    Markup(<< Row("hdr", 4, <<"w", "w", "w", ".", "a", ".", "i", "o">>, "public", "ivan", "1 year", 0) >>,
           << <<"w", "w", "w", ".", "a", ".", "i", "o">>, <<"a", ".", "i", "o">>, <<"A", "b", "o", "u", "t", " ", "u", "s">>, <<"w", "w", "w", ".", "a", ".", "i", "o">>,
              <<"f", "r", "e", "e", "d", "n", "s", ".", "a", "f", "r", "a", "i", "d", ".", "o", "r", "g">>, <<"b", ".", "i", "o">>, <<"x", ".", "1">> >>)

PageEmpty == Markup(<< >>, << >>)

SamplePages == { PageA, PageB, PageLinks, PageEmpty }

\* $('tr.trl, tr.trd')
Selected(row) == row.cls \in {"trl", "trd"}

\* mutant: a row with an empty status is taken as well
WellFormedAnyStatus(row) == row.cells >= 4 /\ row.domain # << >>

\* cells.length >= 4, and domainName && status
WellFormed(row) == row.cells >= 4 /\ row.domain # << >> /\ row.status # ""

Entry(row) ==
    [ domain |-> row.domain, status |-> row.status, owner |-> row.owner,
      age |-> row.age, hosts |-> row.hosts,
      websiteStatus |-> "unchecked", websiteError |-> undefined ]

\* the row callback up to the entry it builds: one entry, or none
ParseRow(row) == IF Selected(row) /\ WellFormed(row) THEN << Entry(row) >> ELSE << >>

\* the entries the row callbacks of one page build, in document order
RECURSIVE ParsePage(_)
ParsePage(rows) ==
    IF rows = << >> THEN << >> ELSE ParseRow(Head(rows)) \o ParsePage(Tail(rows))

\* mutant: only the entry added last is compared
ExistsLast(entries, domain) ==
    Len(entries) > 0 /\ entries[Len(entries)].domain = domain

\* allDomainEntries.some(existing => existing.domain === domainName)
Exists(entries, domain) == \E i \in 1..Len(entries) : entries[i].domain = domain

Accepts(entries, row) ==
    Selected(row) /\ WellFormed(row) /\ ~Exists(entries, row.domain)

\* mutant: the accepted record goes to the front of the accumulator
unshift(entries, entry) == << entry >> \o entries

\* allDomainEntries.push(entry)
push(entries, entry) == Append(entries, entry)

\* the .each callback over the rows of one page
RECURSIVE MergeRows(_, _)
MergeRows(entries, rows) ==
    IF rows = << >> THEN entries
    ELSE MergeRows(IF Accepts(entries, Head(rows))
                   THEN push(entries, ParseRow(Head(rows))[1])
                   ELSE entries,
                   Tail(rows))

-----------------------------------------------------------------------------
(* Fallback: link scan *)

Letters == Range(UpperCase) \cup Range(LowerCase)
HostChars == Letters \cup Range(Digits) \cup {".", "-"}

\* /^[a-zA-Z0-9.-]+\.[a-zA-Z]{2,}$/.test(s)
HostnamePattern(s) ==
    \E k \in 2..(Len(s) - 2) :
        /\ s[k] = "."
        /\ \A i \in 1..(k - 1) : s[i] \in HostChars
        /\ \A i \in (k + 1)..Len(s) : s[i] \in Letters

\* the test under which a link text is pushed to domains
IsCandidate(linkText) ==
    /\ linkText # << >>
    /\ includes(linkText, << "." >>)
    /\ ~includes(linkText, << " " >>)
    /\ HostnamePattern(linkText)

\* Array.from(new Set(domains)): first occurrences, in order
RECURSIVE Unique(_)
Unique(s) ==
    IF s = << >> THEN << >>
    ELSE LET init == Unique(SubSeq(s, 1, Len(s) - 1))
             last == s[Len(s)]
         IN  IF last \in Range(init) THEN init ELSE Append(init, last)

\* the filter callback: it reassigns its own parameter and returns a boolean,
\* so the array keeps the original string
KeepDomain(domain) ==
    /\ domain # << >>
    /\ ~(includes(domain, <<"f", "r", "e", "e", "d", "n", "s">>) \/ includes(domain, <<"a", "f", "r", "a", "i", "d">>))
    /\ LET stripped == IF startsWith(domain, <<"w", "w", "w", ".">>)
                       THEN SubSeq(domain, 5, Len(domain))
                       ELSE domain
       IN  HostnamePattern(stripped)

uniqueDomains(links) ==
    SelectSeq(Unique(SelectSeq(links, IsCandidate)), KeepDomain)

FallbackEntry(domain) ==
    [ domain |-> domain, status |-> "unknown", owner |-> "unknown",
      age |-> "unknown", hosts |-> 0,
      websiteStatus |-> "unchecked", websiteError |-> undefined ]

FallbackEntries(entries, links) ==
    LET u == uniqueDomains(links)
    IN  entries \o [ i \in 1..Len(u) |-> FallbackEntry(u[i]) ]

-----------------------------------------------------------------------------
(* MemStorage *)

ScanIds == { "id-1", "id-2", "id-3" }

\* the calls of POST /api/scan-domains that are in progress at once
Runs == { 1, 2 }

DomainScan(id, insertScan, at) ==
    [ id |-> id, domains |-> insertScan.domains,
      status |-> IF insertScan.status # "" THEN insertScan.status ELSE "completed",
      scannedAt |-> at ]

\* Map.prototype.set: replace the value of an existing key, else append
MapSet(map, scan) ==
    IF \E i \in 1..Len(map) : map[i].id = scan.id
    THEN [ i \in 1..Len(map) |-> IF map[i].id = scan.id THEN scan ELSE map[i] ]
    ELSE Append(map, scan)

\* mutant: the id generator may return an id that is in use
FreshIdsReused(map) == ScanIds

\* the ids a single scan run is given
RunIds == { "id-1", "id-2" }

\* randomUUID(): an id no stored scan has
FreshIds(map) == ScanIds \ { map[i].id : i \in 1..Len(map) }

\* Array.from(this.domainScans.values())
values(map) == map

\* mutant: the comparator puts the older scan first
compareAscending(a, b) == a.scannedAt - b.scannedAt

\* (a, b) => b.scannedAt.getTime() - a.scannedAt.getTime()
compare(a, b) == b.scannedAt - a.scannedAt

\* Array.prototype.sort with that comparator; the sort is stable, so an element
\* goes behind every earlier element it does not have to precede
RECURSIVE sort(_)
sort(scans) ==
    IF scans = << >> THEN << >>
    ELSE LET front == sort(SubSeq(scans, 1, Len(scans) - 1))
             x == scans[Len(scans)]
             k == Cardinality({ i \in 1..Len(front) : compare(front[i], x) <= 0 })
         IN  SubSeq(front, 1, k) \o << x >> \o SubSeq(front, k + 1, Len(front))

\* element [0] of the sorted array: no element (undefined) when the store is empty
getLatestDomainScan(map) ==
    LET scans == sort(values(map))
    IN  IF Len(scans) = 0 THEN << >> ELSE << scans[1] >>

getAllDomainScans(map) == sort(values(map))

-----------------------------------------------------------------------------
(* POST /api/scan-domains *)

Err(m) == [ isError |-> TRUE, message |-> m ]
NoErr == [ isError |-> FALSE, message |-> "" ]

FetchErrors == { Err("Network Error"), Err("timeout of 30000ms exceeded") }
StorageError == Err("store unavailable")
ResponseError == Err("response could not be written")

\* what the probes of a scan run meet on the network
ScanOutcomes ==
    { o \in Outcomes :
        \/ o.kind = "timeout"
        \/ /\ o.kind = "response"
           /\ o.responseUrl = << >>
           /\ \/ o.status = 200 /\ o.data = TextData(<<"<", "h", "1", ">", "o", "k", "<", "/", "h", "1", ">">>)
              \/ o.status = 404 /\ o.data = TextData(<<"<", "h", "1", ">", "o", "k", "<", "/", "h", "1", ">">>) }

\* mutant: the response carries the scan data as validated, not the stored scan
SuccessResponseUnsaved(scan) ==
    [ code |-> 200, success |-> TRUE, scan |-> << [ scan EXCEPT !.id = "" ] >>,
      error |-> "" ]

SuccessResponse(scan) ==
    [ code |-> 200, success |-> TRUE, scan |-> << scan >>, error |-> "" ]

\* error instanceof Error ? error.message : "Unknown error occurred"
FailureResponse(e) ==
    [ code |-> 500, success |-> FALSE, scan |-> << >>,
      error |-> IF e.isError THEN e.message ELSE "Unknown error occurred" ]

Idle(entries) == [ i \in 1..Len(entries) |-> "idle" ]
NoAttempts(entries) == [ i \in 1..Len(entries) |-> << >> ]

StartScan(p) ==
    /\ pc = "idle"
    /\ pages' = p
    /\ page' = 1
    /\ requests' = << 1 >>
    /\ pc' = "fetch"
    /\ UNCHANGED << domainScans, clock, allDomainEntries, probePc, caught, response,
                    fetchLog, fetchFailedAt, delays, attempts, createCalls,
                    fallbackUsed, fallbackLog, responsesSent >>
    /\ UNCHANGED << cdVars, queryVars, runVars >>

\* the page loop is left: checkPromises is built next
AfterLoop(entries) == IF Len(entries) = 0 THEN "join" ELSE "launch"

\* mutant: the delay is taken after every page, the last one included
PaceNeededAfterLast(p, n) == p <= n

\* if (page < pages): a pacing delay follows the page
PaceNeeded(p, n) == p < n

\* mutant: the loop variable is not advanced
NextPageSame(p) == p

\* page++
NextPage(p) == p + 1

FetchResolved(markup) ==
    /\ pc = "fetch"
    /\ LET entries == MergeRows(allDomainEntries, markup.rows)
       IN  /\ allDomainEntries' = entries
           /\ probePc' = Idle(entries)
           /\ attempts' = NoAttempts(entries)
           /\ pc' = IF PaceNeeded(page, pages) THEN "pace" ELSE AfterLoop(entries)
    /\ fetchLog' = Append(fetchLog, markup)
    /\ UNCHANGED << domainScans, clock, pages, page, caught, response, fetchFailedAt,
                    delays, createCalls, fallbackUsed, fallbackLog,
                    requests, responsesSent >>
    /\ UNCHANGED << cdVars, queryVars, runVars >>

FetchRejected(e) ==
    /\ pc = "fetch"
    /\ fetchFailedAt' = page
    /\ caught' = e
    /\ pc' = "catch"
    /\ UNCHANGED << domainScans, clock, pages, page, allDomainEntries, probePc,
                    response, fetchLog, delays, attempts, createCalls, fallbackUsed,
                    fallbackLog, requests, responsesSent >>
    /\ UNCHANGED << cdVars, queryVars, runVars >>

\* the 1000 ms timer fires; the loop advances and tests page <= pages
PaceElapsed ==
    /\ pc = "pace"
    /\ delays' = delays + 1
    /\ page' = NextPage(page)
    /\ IF NextPage(page) <= pages
       THEN /\ requests' = Append(requests, NextPage(page))
            /\ pc' = "fetch"
       ELSE /\ pc' = AfterLoop(allDomainEntries)
            /\ UNCHANGED requests
    /\ UNCHANGED << domainScans, clock, pages, allDomainEntries, probePc, caught,
                    response, fetchLog, fetchFailedAt, attempts, createCalls,
                    fallbackUsed, fallbackLog, responsesSent >>
    /\ UNCHANGED << cdVars, queryVars, runVars >>

\* the map callback up to its first await, for the next entry
NextToLaunch == CHOOSE i \in 1..Len(probePc) :
                    probePc[i] = "idle" /\ \A j \in 1..(i - 1) : probePc[j] # "idle"

\* mutant: the record is not marked before its probe is invoked
MarkCheckingSkipped(entry) == entry

\* entry.websiteStatus = 'checking'
MarkChecking(entry) == [ entry EXCEPT !.websiteStatus = "checking" ]

LaunchProbe ==
    /\ pc = "launch"
    /\ LET i == NextToLaunch
       IN  /\ allDomainEntries' =
                 [ allDomainEntries EXCEPT ![i] = MarkChecking(@) ]
           /\ probePc' = [ probePc EXCEPT ![i] = "request" ]
           /\ pc' = IF i = Len(probePc) THEN "join" ELSE "launch"
    /\ UNCHANGED << domainScans, clock, pages, page, caught, response, fetchLog,
                    fetchFailedAt, delays, attempts, createCalls, fallbackUsed,
                    fallbackLog, requests, responsesSent >>
    /\ UNCHANGED << cdVars, queryVars, runVars >>

\* mutant: the error property is written for every classification
SettledAlwaysError(entry, r) ==
    [ entry EXCEPT !.websiteStatus = r.status,
                   !.websiteError = IF r.error = undefined THEN "" ELSE r.error ]

\* the rest of the map callback, given what checkWebsiteStatus did
Settled(entry, r) ==
    IF r.threw
    THEN [ entry EXCEPT !.websiteStatus = "broken", !.websiteError = "Check failed" ]
    ELSE [ entry EXCEPT !.websiteStatus = r.status,
                        !.websiteError = IF r.error \notin {undefined, ""}
                                         THEN r.error ELSE @ ]

\* mutant: the callbacks share one binding, which holds the last record
SharedRecord(i) == Len(allDomainEntries)

\* the record the callback of task i has in its parameter entry
OwnRecord(i) == i

ProbeSettle(i, o) ==
    /\ pc = "join"
    /\ i \in 1..Len(probePc)
    /\ probePc[i] = "request"
    /\ LET urls == ProbeUrls(allDomainEntries[i].domain)
           n == Len(attempts[i]) + 1
           r == AfterAttempt(urls, n, o)
       IN  /\ attempts' = [ attempts EXCEPT ![i] = Append(@, Attempt(urls[n], o)) ]
           /\ IF r.done
              THEN /\ allDomainEntries' =
                         [ allDomainEntries EXCEPT ![OwnRecord(i)] = Settled(@, r) ]
                   /\ probePc' = [ probePc EXCEPT ![i] = "done" ]
              ELSE UNCHANGED << allDomainEntries, probePc >>
    /\ UNCHANGED << domainScans, clock, pc, pages, page, caught, response, fetchLog,
                    fetchFailedAt, delays, createCalls, fallbackUsed, fallbackLog,
                    requests, responsesSent >>
    /\ UNCHANGED << cdVars, queryVars, runVars >>

\* mutant: the join resolves with the first task that settles
AnySettled == \E i \in 1..Len(probePc) : probePc[i] = "done"

\* mutant: the join only resolves when there is at least one task
AllSettledNonEmpty ==
    Len(probePc) > 0 /\ \A i \in 1..Len(probePc) : probePc[i] = "done"

\* Promise.all(checkPromises) resolves
AllSettled == \A i \in 1..Len(probePc) : probePc[i] = "done"

\* mutant: the link scan also runs when the pages yielded few records
NeedsFallbackFew(entries) == Len(entries) <= 2

\* mutant: the link scan is not guarded
NeedsFallbackAlways(entries) == TRUE

\* if (allDomainEntries.length === 0)
NeedsFallback(entries) == Len(entries) = 0

Join ==
    /\ pc = "join"
    /\ AllSettled
    /\ IF NeedsFallback(allDomainEntries)
       THEN /\ pc' = "fallback"
            /\ fallbackUsed' = fallbackUsed + 1
       ELSE /\ pc' = "save"
            /\ UNCHANGED fallbackUsed
    /\ UNCHANGED << domainScans, clock, pages, page, allDomainEntries, probePc, caught,
                    response, fetchLog, fetchFailedAt, delays, attempts, createCalls,
                    fallbackLog, requests, responsesSent >>
    /\ UNCHANGED << cdVars, queryVars, runVars >>

FallbackResolved(markup) ==
    /\ pc = "fallback"
    /\ allDomainEntries' = FallbackEntries(allDomainEntries, markup.links)
    /\ fallbackLog' = Append(fallbackLog, markup)
    /\ pc' = "save"
    /\ UNCHANGED << domainScans, clock, pages, page, probePc, caught, response,
                    fetchLog, fetchFailedAt, delays, attempts, createCalls,
                    fallbackUsed, requests, responsesSent >>
    /\ UNCHANGED << cdVars, queryVars, runVars >>

FallbackRejected(e) ==
    /\ pc = "fallback"
    /\ caught' = e
    /\ pc' = "catch"
    /\ UNCHANGED << domainScans, clock, pages, page, allDomainEntries, probePc,
                    response, fetchLog, fetchFailedAt, delays, attempts, createCalls,
                    fallbackUsed, fallbackLog, requests, responsesSent >>
    /\ UNCHANGED << cdVars, queryVars, runVars >>

Call(status, ok) == [ status |-> status, ok |-> ok ]

\* storage.createDomainScan resolves; time may pass before the next call
createDomainScan(insertScan, id, dt) ==
    /\ domainScans' = MapSet(domainScans, DomainScan(id, insertScan, clock))
    /\ clock' = clock + dt
    /\ createCalls' = Append(createCalls, Call(insertScan.status, TRUE))

createDomainScanRejects(insertScan) ==
    /\ createCalls' = Append(createCalls, Call(insertScan.status, FALSE))
    /\ UNCHANGED << domainScans, clock >>

scanData == [ domains |-> allDomainEntries, status |-> "completed" ]

\* mutant: the failed record keeps what the pages before the failure yielded
failedScanDataPartial == [ domains |-> allDomainEntries, status |-> "failed" ]
failedScanData == [ domains |-> << >>, status |-> "failed" ]

SaveResolved(id, dt, written) ==
    /\ pc = "save"
    /\ id \in FreshIds(domainScans)
    /\ createDomainScan(scanData, id, dt)
    /\ IF written
       THEN /\ response' = SuccessResponse(DomainScan(id, scanData, clock))
            /\ responsesSent' = responsesSent + 1
            /\ pc' = "done"
            /\ UNCHANGED caught
       ELSE /\ caught' = ResponseError
            /\ pc' = "catch"
            /\ UNCHANGED << response, responsesSent >>
    /\ UNCHANGED << pages, page, allDomainEntries, probePc, fetchLog, fetchFailedAt,
                    delays, attempts, fallbackUsed, fallbackLog, requests >>
    /\ UNCHANGED << cdVars, queryVars, runVars >>

SaveRejected ==
    /\ pc = "save"
    /\ createDomainScanRejects(scanData)
    /\ caught' = StorageError
    /\ pc' = "catch"
    /\ UNCHANGED << pages, page, allDomainEntries, probePc, response, fetchLog,
                    fetchFailedAt, delays, attempts, fallbackUsed, fallbackLog,
                    requests, responsesSent >>
    /\ UNCHANGED << cdVars, queryVars, runVars >>

CatchResolved(id, dt) ==
    /\ pc = "catch"
    /\ id \in FreshIds(domainScans)
    /\ createDomainScan(failedScanData, id, dt)
    /\ response' = FailureResponse(caught)
    /\ responsesSent' = responsesSent + 1
    /\ pc' = "done"
    /\ UNCHANGED << pages, page, allDomainEntries, probePc, caught, fetchLog,
                    fetchFailedAt, delays, attempts, fallbackUsed, fallbackLog,
                    requests >>
    /\ UNCHANGED << cdVars, queryVars, runVars >>

\* mutant: the storage error of the failed record leaves the catch block, no response
\* is written
CatchRejectedPropagates ==
    /\ pc = "catch"
    /\ createDomainScanRejects(failedScanData)
    /\ caught' = StorageError
    /\ pc' = "done"
    /\ UNCHANGED << pages, page, allDomainEntries, probePc, response, fetchLog,
                    fetchFailedAt, delays, attempts, fallbackUsed, fallbackLog,
                    requests, responsesSent >>
    /\ UNCHANGED << cdVars, queryVars, runVars >>

CatchRejected ==
    /\ pc = "catch"
    /\ createDomainScanRejects(failedScanData)
    /\ response' = FailureResponse(caught)
    /\ responsesSent' = responsesSent + 1
    /\ pc' = "done"
    /\ UNCHANGED << pages, page, allDomainEntries, probePc, caught, fetchLog,
                    fetchFailedAt, delays, attempts, fallbackUsed, fallbackLog,
                    requests >>
    /\ UNCHANGED << cdVars, queryVars, runVars >>

-----------------------------------------------------------------------------
(* Specifications *)

NoResponse == [ code |-> 0, success |-> FALSE, scan |-> << >>, error |-> "" ]

\* a read of the store: the route, the store it read and the scans it answered with
Query(route, store, scans) == [ route |-> route, store |-> store, scans |-> scans ]
NoQuery == Query("none", << >>, << >>)

\* one call of the handler: its position, the page it fetched, its allDomainEntries,
\* its checkPromises, the requests of its probes and the scan it answered with
Run(at, fetched, entries, tasks, reqs, saved) ==
    [ pc |-> at, fetched |-> fetched, entries |-> entries, probePc |-> tasks,
      attempts |-> reqs, saved |-> saved ]
IdleRun == Run("idle", << >>, << >>, << >>, << >>, << >>)

Init ==
    /\ domainScans = << >>
    /\ clock = 0
    /\ pc = "idle"
    /\ pages = 0
    /\ page = 0
    /\ allDomainEntries = << >>
    /\ probePc = << >>
    /\ caught = NoErr
    /\ response = NoResponse
    /\ fetchLog = << >>
    /\ fetchFailedAt = 0
    /\ delays = 0
    /\ attempts = << >>
    /\ createCalls = << >>
    /\ fallbackUsed = 0
    /\ fallbackLog = << >>
    /\ requests = << >>
    /\ responsesSent = 0
    /\ cdPc = "idle"
    /\ cdDomain = << >>
    /\ cdAttempts = << >>
    /\ cdResponse = NoCheckDomainResponse
    /\ lastQuery = NoQuery
    /\ runs = [ r \in Runs |-> IdleRun ]

Next ==
    \/ \E p \in 1..MaxPages : StartScan(p)
    \/ \E m \in SamplePages : FetchResolved(m)
    \/ \E e \in FetchErrors : FetchRejected(e)
    \/ PaceElapsed
    \/ LaunchProbe
    \/ \E i \in 1..Len(probePc), o \in ScanOutcomes : ProbeSettle(i, o)
    \/ Join
    \/ \E m \in SamplePages : FallbackResolved(m)
    \/ \E e \in FetchErrors : FallbackRejected(e)
    \/ \E id \in RunIds, dt \in {0, 1}, written \in BOOLEAN : SaveResolved(id, dt, written)
    \/ SaveRejected
    \/ \E id \in RunIds, dt \in {0, 1} : CatchResolved(id, dt)
    \/ CatchRejected

Spec == Init /\ [][Next]_vars

\* a step of a run that has been started: something the handler awaits settles
\* (a page fetch, the pacing timer, a probe request, a storage call), or code
\* that is ready to run runs
Settles ==
    \/ \E m \in SamplePages : FetchResolved(m)
    \/ \E e \in FetchErrors : FetchRejected(e)
    \/ PaceElapsed
    \/ LaunchProbe
    \/ \E i \in 1..Len(probePc), o \in ScanOutcomes : ProbeSettle(i, o)
    \/ Join
    \/ \E m \in SamplePages : FallbackResolved(m)
    \/ \E e \in FetchErrors : FallbackRejected(e)
    \/ \E id \in RunIds, dt \in {0, 1}, written \in BOOLEAN : SaveResolved(id, dt, written)
    \/ SaveRejected
    \/ \E id \in RunIds, dt \in {0, 1} : CatchResolved(id, dt)
    \/ CatchRejected

\* every fetch, timer, probe request and storage call eventually settles
SpecLive == Spec /\ WF_vars(Settles)

\* axios.get rejects: no response, or a status validateStatus refuses
CheckDomainRejected(o) == ~Resolves(o) /\ CheckDomainSettle(o)

\* axios.get resolves with a response
CheckDomainResolved(o) == Resolves(o) /\ CheckDomainSettle(o)

NextCheckDomain ==
    \/ \E d \in SampleDomains : CheckDomain(d)
    \/ \E o \in Outcomes : CheckDomainRejected(o)
    \/ \E o \in Outcomes : CheckDomainResolved(o)

SpecCheckDomain == Init /\ [][NextCheckDomain]_vars

\* what scan runs hand to storage.createDomainScan
SampleInserts ==
    { failedScanData,
      [ domains |-> MergeRows(<< >>, PageA.rows), status |-> "completed" ],
      [ domains |-> << >>, status |-> "" ] }

\* a scan run reaches storage.createDomainScan
StoreScan(insertScan, id, dt) ==
    /\ id \in FreshIds(domainScans)
    /\ createDomainScan(insertScan, id, dt)
    /\ UNCHANGED << pc, pages, page, allDomainEntries, probePc, caught, response,
                    fetchLog, fetchFailedAt, delays, attempts, fallbackUsed,
                    fallbackLog, requests, responsesSent >>
    /\ UNCHANGED << cdVars, queryVars, runVars >>

\* GET /api/latest-scan
LatestScan ==
    /\ lastQuery' = Query("latest-scan", domainScans, getLatestDomainScan(domainScans))
    /\ UNCHANGED << scanVars, cdVars, runVars >>

\* GET /api/scans
Scans ==
    /\ lastQuery' = Query("scans", domainScans, getAllDomainScans(domainScans))
    /\ UNCHANGED << scanVars, cdVars, runVars >>

NextStore ==
    \/ \E insertScan \in SampleInserts, id \in ScanIds, dt \in {0, 1} :
           StoreScan(insertScan, id, dt)
    \/ LatestScan
    \/ Scans

SpecStore == Init /\ [][NextStore]_vars

\* Two calls of the scan handler, each for one page that has usable rows; their
\* steps interleave where the handler awaits: the page fetch, the probe requests,
\* the join.  The code between two awaits runs without interruption.
TwoRunPages == { PageA, PageB }
TwoRunOutcomes == { o \in ScanOutcomes : o.kind = "response" }

\* mutant: the accumulator is one array of the module, shared by all calls
AccumulatorShared(r) == runs[1].entries \o runs[2].entries

\* const allDomainEntries: DomainEntry[] = [] of this call
Accumulator(r) == runs[r].entries

RunStart(r) ==
    /\ runs[r].pc = "idle"
    /\ runs' = [ runs EXCEPT ![r].pc = "fetch" ]
    /\ UNCHANGED << scanVars, cdVars, queryVars >>

\* the page fetch of call r resolves: rows are merged, every record is marked
\* and its probe invoked, and the call waits at the join
RunFetched(r, markup) ==
    /\ runs[r].pc = "fetch"
    /\ LET merged == MergeRows(Accumulator(r), markup.rows)
           entries == [ i \in 1..Len(merged) |-> MarkChecking(merged[i]) ]
       IN  runs' = [ runs EXCEPT ![r] =
                       Run("join", << markup >>, entries,
                           [ i \in 1..Len(entries) |-> "request" ],
                           NoAttempts(entries), << >>) ]
    /\ UNCHANGED << scanVars, cdVars, queryVars >>

\* a probe request of call r settles
RunProbeSettle(r, i, o) ==
    /\ runs[r].pc = "join"
    /\ i \in 1..Len(runs[r].probePc)
    /\ runs[r].probePc[i] = "request"
    /\ LET urls == ProbeUrls(runs[r].entries[i].domain)
           n == Len(runs[r].attempts[i]) + 1
           res == AfterAttempt(urls, n, o)
       IN  runs' = [ runs EXCEPT
                       ![r].attempts[i] = Append(@, Attempt(urls[n], o)),
                       ![r].entries[i] = IF res.done THEN Settled(@, res) ELSE @,
                       ![r].probePc[i] = IF res.done THEN "done" ELSE @ ]
    /\ UNCHANGED << scanVars, cdVars, queryVars >>

\* the join of call r resolves; the completed scan is stored and sent
RunSaved(r, id, dt) ==
    /\ runs[r].pc = "join"
    /\ \A i \in 1..Len(runs[r].probePc) : runs[r].probePc[i] = "done"
    /\ id \in FreshIds(domainScans)
    /\ LET insertScan == [ domains |-> runs[r].entries, status |-> "completed" ]
       IN  /\ createDomainScan(insertScan, id, dt)
           /\ runs' = [ runs EXCEPT ![r].pc = "done",
                                    ![r].saved = << DomainScan(id, insertScan, clock) >> ]
    /\ UNCHANGED << pc, pages, page, allDomainEntries, probePc, caught, response,
                    fetchLog, fetchFailedAt, delays, attempts, fallbackUsed,
                    fallbackLog, requests, responsesSent >>
    /\ UNCHANGED << cdVars, queryVars >>

NextTwoRuns ==
    \/ \E r \in Runs : RunStart(r)
    \/ \E r \in Runs, m \in TwoRunPages : RunFetched(r, m)
    \/ \E r \in Runs : \E i \in 1..Len(runs[r].probePc), o \in TwoRunOutcomes :
           RunProbeSettle(r, i, o)
    \/ \E r \in Runs, id \in ScanIds, dt \in {0, 1} : RunSaved(r, id, dt)

SpecTwoRuns == Init /\ [][NextTwoRuns]_vars

-----------------------------------------------------------------------------
(* Properties of the scan handler (specification Spec) *)

Completed(k) == domainScans[k].status = "completed"

Probed(entry) == entry.websiteStatus \in {"working", "broken"}

\* C1: in every stored ScanResult with status completed, every record of its
\* domains has been probed (working or broken, never unchecked or checking),
\* on every path to a completed result, the fallback path included.
C1_CompletedScansAreFullyProbed ==
    \A k \in 1..Len(domainScans) :
        Completed(k) =>
            \A i \in 1..Len(domainScans[k].domains) : Probed(domainScans[k].domains[i])

NoProbeStarted ==
    /\ \A i \in 1..Len(probePc) : probePc[i] = "idle" /\ attempts[i] = << >>
    /\ \A i \in 1..Len(allDomainEntries) :
           allDomainEntries[i].websiteStatus = "unchecked"

OnlyEmptyFailedScansStored ==
    \A k \in 1..Len(domainScans) :
        domainScans[k].status = "failed" /\ domainScans[k].domains = << >>

OriginalErrorReported ==
    /\ caught \in FetchErrors
    /\ response.code = 500
    /\ ~response.success
    /\ response.scan = << >>
    /\ response.error = caught.message

C3_ExactlyOneScanPerRun ==
    pc = "done" => Len(domainScans) = 1

RECURSIVE FlatRows(_)
FlatRows(log) ==
    IF log = << >> THEN << >> ELSE Head(log).rows \o FlatRows(Tail(log))

SameRegistryData(entry, row) ==
    /\ entry.domain = row.domain
    /\ entry.status = row.status
    /\ entry.owner = row.owner
    /\ entry.age = row.age
    /\ entry.hosts = row.hosts

\* C4: at every point of a run the aggregated collection holds no two records
\* with the same domain; of the rows naming one domain (within a page, across
\* pages, or on a page merged twice) the first is kept unchanged, the others dropped.
C4_UniqueDomainsFirstWins ==
    LET rows == FlatRows(fetchLog)
        Usable(k) == Selected(rows[k]) /\ WellFormed(rows[k])
        First(k) ==
            /\ Usable(k)
            /\ \A j \in 1..(k - 1) : ~(Usable(j) /\ rows[j].domain = rows[k].domain)
    IN  /\ \A i, j \in 1..Len(allDomainEntries) :
               i # j => allDomainEntries[i].domain # allDomainEntries[j].domain
        /\ fallbackLog = << >> =>
               /\ \A i \in 1..Len(allDomainEntries) :
                      \E k \in 1..Len(rows) :
                          First(k) /\ SameRegistryData(allDomainEntries[i], rows[k])
               /\ \A k \in 1..Len(rows) :
                      Usable(k) =>
                          \E i \in 1..Len(allDomainEntries) :
                              allDomainEntries[i].domain = rows[k].domain
        /\ fallbackLog # << >> =>
               \A i \in 1..Len(allDomainEntries) :
                   \E k \in 1..Len(fallbackLog[1].links) :
                       allDomainEntries[i].domain = fallbackLog[1].links[k]

\* the same page content merged twice: the second merge adds nothing
C4_Witness ==
    /\ fetchLog = << PageA, PageA >>
    /\ Len(allDomainEntries) = 2
    /\ allDomainEntries[1].owner = "alice"
    /\ allDomainEntries[2].owner = "bob"

\* what the probe task of entry i got from checkWebsiteStatus
ProbeResult(i) ==
    LET a == attempts[i]
    IN  AfterAttempt(ProbeUrls(allDomainEntries[i].domain), Len(a), a[Len(a)].outcome)

-----------------------------------------------------------------------------
(* Properties of checkWebsiteStatus (specification SpecCheckDomain) *)

HttpUrl == <<"h", "t", "t", "p", ":", "/", "/">> \o cdDomain
HttpsUrl == <<"h", "t", "t", "p", "s", ":", "/", "/">> \o cdDomain

GotResponse(a) == a.outcome.kind = "response"

\* the response was accepted (status < 500) and its body could be lower-cased
Inspected(a) ==
    /\ GotResponse(a)
    /\ a.outcome.status < 500
    /\ a.outcome.data.kind = "string"

Last(s) == s[Len(s)]

Classified == cdPc = "done" /\ cdResponse.code = 200

SignaturePresent(a) == HasSignature(a.url, a.outcome)

\* C6: for an inspected response whose lower-cased final URL or lower-cased body
\* contains a filter signature the result is broken with the security-filter error,
\* whatever the status code; the status-code rule applies only without a signature.
C6_SignatureBeforeStatus ==
    Classified =>
        LET a == Last(cdAttempts)
        IN  /\ (Inspected(a) /\ SignaturePresent(a)) =>
                   /\ cdResponse.websiteStatus = "broken"
                   /\ cdResponse.websiteError = BlockedError
            /\ cdResponse.websiteError = HttpError(a.outcome.status) =>
                   ~SignaturePresent(a)
            /\ cdResponse.websiteError = BlockedError =>
                   Inspected(a) /\ SignaturePresent(a)

\* a 404 response whose body holds a signature in mixed case is a filter block
C6_Witness ==
    /\ Classified
    /\ Last(cdAttempts).outcome.status = 404
    /\ Last(cdAttempts).outcome.data = TextData(<<"A", "c", "c", "e", "s", "s", " ", "D", "e", "n", "i", "e", "d">>)
    /\ Last(cdAttempts).outcome.responseUrl = << >>
    /\ cdDomain = <<"a", ".", "i", "o">>
    /\ cdResponse.websiteError = BlockedError

\* C7: for an inspected response without a filter signature the probe returns
\* broken with error "HTTP <status>" exactly when 400 <= status < 500, and working
\* with no error exactly when status < 400.
C7_StatusRule ==
    (Classified /\ Inspected(Last(cdAttempts)) /\ ~SignaturePresent(Last(cdAttempts))) =>
        LET status == Last(cdAttempts).outcome.status
            brokenHttp ==
                /\ cdResponse.websiteStatus = "broken"
                /\ cdResponse.websiteError = "HTTP " \o ToString(status)
            working ==
                /\ cdResponse.websiteStatus = "working"
                /\ cdResponse.websiteError = undefined
        IN  /\ brokenHttp <=> (400 <= status /\ status < 500)
            /\ working <=> status < 400

\* the lowest client-error status
C7_Witness ==
    /\ Classified
    /\ Inspected(Last(cdAttempts))
    /\ ~SignaturePresent(Last(cdAttempts))
    /\ Last(cdAttempts).outcome.status = 400
    /\ cdResponse.websiteError = "HTTP 400"

\* C8: when both the HTTP and the HTTPS attempt end without a determination the
\* probe returns broken with error "Connection failed", and it returns that result
\* only after both variants have been attempted.
C8_ConnectionFailedAfterBoth ==
    /\ (Len(cdAttempts) = 2 /\ ~Inspected(cdAttempts[1]) /\ ~Inspected(cdAttempts[2])) =>
           /\ Classified
           /\ cdResponse.websiteStatus = "broken"
           /\ cdResponse.websiteError = ConnectionFailedError
    /\ cdResponse.websiteError = ConnectionFailedError =>
           /\ Len(cdAttempts) = 2
           /\ cdAttempts[1].url = HttpUrl
           /\ cdAttempts[2].url = HttpsUrl
           /\ ~Inspected(cdAttempts[1]) /\ ~Inspected(cdAttempts[2])

\* both variants time out
C8_Witness ==
    /\ Classified
    /\ Len(cdAttempts) = 2
    /\ cdAttempts[1].outcome.kind = "timeout"
    /\ cdAttempts[2].outcome.kind = "timeout"
    /\ cdResponse.websiteError = ConnectionFailedError

\* C9: the probe never raises to its caller: for every combination of outcomes of
\* the two variants it returns working or broken; a broken result carries a
\* non-empty error and a working result carries none.
C9_ProbeAlwaysClassifies ==
    /\ cdResponse.code # 500
    /\ Len(cdAttempts) = 2 => Classified
    /\ Classified =>
           /\ cdResponse.websiteStatus \in {"working", "broken"}
           /\ cdResponse.websiteStatus = "broken" =>
                  cdResponse.websiteError \notin {undefined, ""}
           /\ cdResponse.websiteStatus = "working" =>
                  cdResponse.websiteError = undefined

\* a body that cannot be lower-cased on HTTP, then a transport error on HTTPS
C9_Witness ==
    /\ Classified
    /\ Len(cdAttempts) = 2
    /\ cdAttempts[1].outcome.status = 200
    /\ cdAttempts[1].outcome.data = ObjectData
    /\ cdAttempts[2].outcome.kind = "error"
    /\ cdResponse.websiteStatus = "broken"

-----------------------------------------------------------------------------
(* Properties of the page loop, the fallback and the responses (specification Spec) *)

Usable(row) == Selected(row) /\ WellFormed(row)

\* some page fetched so far has a row the parser accepts
PagesYieldedRecord ==
    LET rows == FlatRows(fetchLog)
    IN  \E k \in 1..Len(rows) : Usable(rows[k])

\* the handler has passed the point where it decides on the fallback
PastFallbackDecision ==
    pc \in {"fallback", "save", "catch", "done"} /\ fetchFailedAt = 0

\* C11: the fallback is invoked in a run if and only if the accumulated set is
\* empty after all pages have been fetched and parsed; it is invoked at most
\* once per run, and never in a run in which some page yielded a record.
C11_FallbackIffNoPageYieldedRecord ==
    /\ fallbackUsed <= 1
    /\ Len(fallbackLog) <= fallbackUsed
    /\ fallbackUsed = 1 => Len(fetchLog) = pages /\ ~PagesYieldedRecord
    /\ PastFallbackDecision => (fallbackUsed = 1 <=> ~PagesYieldedRecord)

\* two pages without a usable row, then the link scan finds domains
C11_Witness ==
    /\ pc = "done"
    /\ fetchLog = << PageEmpty, PageLinks >>
    /\ fallbackUsed = 1
    /\ Len(fallbackLog) = 1
    /\ Len(allDomainEntries) > 0

-----------------------------------------------------------------------------
(* Properties of the store (specification SpecStore) *)

\* C12: getLatest returns nothing when the store holds no scan and otherwise a
\* stored scan whose scannedAt is the maximum over the store; listAll returns
\* every stored scan exactly once, ordered by scannedAt descending; getLatest
\* equals the first element of listAll, also when scans share a timestamp.
C12_LatestIsFirstOfListAll ==
    LET store == lastQuery.store
        scans == lastQuery.scans
        all == getAllDomainScans(store)
    IN  /\ lastQuery.route = "latest-scan" =>
            /\ store = << >> => scans = << >>
            /\ store # << >> =>
                   /\ Len(scans) = 1
                   /\ \E i \in 1..Len(store) : store[i] = scans[1]
                   /\ \A i \in 1..Len(store) : store[i].scannedAt <= scans[1].scannedAt
            /\ scans = IF all = << >> THEN << >> ELSE << all[1] >>
        /\ lastQuery.route = "scans" =>
            /\ Len(scans) = Len(store)
            /\ \A i \in 1..Len(store) :
                   Cardinality({ k \in 1..Len(scans) : scans[k] = store[i] }) = 1
            /\ \A i, j \in 1..Len(scans) :
                   i < j => scans[i].scannedAt >= scans[j].scannedAt

\* three stored scans, the two newest with the same timestamp
C12_Witness ==
    /\ lastQuery.route = "latest-scan"
    /\ Len(lastQuery.store) = 3
    /\ lastQuery.store[1].scannedAt < lastQuery.store[2].scannedAt
    /\ lastQuery.store[2].scannedAt = lastQuery.store[3].scannedAt
    /\ lastQuery.scans = << lastQuery.store[2] >>

-----------------------------------------------------------------------------
(* Properties of the scan handler, continued (specification Spec) *)

ErrorOnlyIfBroken(entry) ==
    entry.websiteError # undefined => entry.websiteStatus = "broken"

\* C13: at every point of a scan run, and in every persisted ScanResult, a
\* record carries a websiteError only if its websiteStatus is broken: a record
\* that is unchecked, checking or working never has an error string.
C13_ErrorOnlyOnBrokenRecords ==
    /\ \A i \in 1..Len(allDomainEntries) : ErrorOnlyIfBroken(allDomainEntries[i])
    /\ \A k \in 1..Len(domainScans) :
           \A i \in 1..Len(domainScans[k].domains) :
               ErrorOnlyIfBroken(domainScans[k].domains[i])

\* one probe has ended broken with its error, one working, both are persisted
C13_Witness ==
    /\ Len(domainScans) = 1
    /\ Len(domainScans[1].domains) = 2
    /\ domainScans[1].domains[1].websiteStatus = "working"
    /\ domainScans[1].domains[1].websiteError = undefined
    /\ domainScans[1].domains[2].websiteStatus = "broken"
    /\ domainScans[1].domains[2].websiteError = ConnectionFailedError

\* C14: every scan run gives the caller exactly one outcome: a success that
\* carries the stored scan, or a failure with a message, never both and never
\* none; a success is given only if a scan with status completed was stored
\* in that run.
C14_ExactlyOneOutcome ==
    /\ responsesSent <= 1
    /\ pc = "done" <=> responsesSent = 1
    /\ responsesSent = 0 <=> response = NoResponse
    /\ response # NoResponse =>
           \/ /\ response.success
              /\ response.code = 200
              /\ response.error = ""
              /\ Len(response.scan) = 1
              /\ \E k \in 1..Len(domainScans) :
                     Completed(k) /\ domainScans[k] = response.scan[1]
              /\ \E c \in 1..Len(createCalls) : createCalls[c] = Call("completed", TRUE)
           \/ /\ ~response.success
              /\ response.code = 500
              /\ response.scan = << >>
              /\ response.error # ""

\* a run that ends with the success response for the scan it stored
C14_Witness ==
    /\ pc = "done"
    /\ responsesSent = 1
    /\ response.success
    /\ domainScans = response.scan
    /\ fallbackUsed = 0
    /\ Len(response.scan[1].domains) = 2

-----------------------------------------------------------------------------
(* Properties of the store, continued (specification SpecStore) *)

\* C15: once a scan is in the store, no later operation (storing further scans,
\* getLatest, listAll) changes its id, domains, status or scannedAt, and none
\* removes it: every step keeps every stored scan as it is.
C15_StoredScansNeverChange ==
    [][ \A k \in 1..Len(domainScans) :
            \E j \in 1..Len(domainScans') : domainScans'[j] = domainScans[k] ]_vars

\* the list was read when the store held two scans, newest first; a third scan
\* has been stored since, and the two are still what they were
C15_Witness ==
    /\ lastQuery.route = "scans"
    /\ Len(lastQuery.store) = 2
    /\ Len(domainScans) = 3
    /\ lastQuery.scans = << domainScans[2], domainScans[1] >>
    /\ domainScans[3].status = "failed"

-----------------------------------------------------------------------------
(* Properties of the catch block and the page loop (specification Spec) *)

\* the message of the error that made the run enter its catch block
OriginalMessages ==
    IF fetchFailedAt # 0 \/ (fallbackUsed = 1 /\ fallbackLog = << >>)
    THEN { e.message : e \in FetchErrors }
    ELSE IF createCalls[1] = Call("completed", FALSE)
    THEN { StorageError.message }
    ELSE { ResponseError.message }

\* C16: on the failure path, if storing the failed scan itself fails, that
\* second failure is not propagated: the caller still gets the failure response,
\* and it carries the message of the original error.
C16_SecondaryFailureNotPropagated ==
    (pc = "done" /\ createCalls # << >> /\ Last(createCalls) = Call("failed", FALSE)) =>
        /\ responsesSent = 1
        /\ ~response.success
        /\ response.code = 500
        /\ response.error \in OriginalMessages

\* the page fetch fails, storing the failed scan fails, the fetch error is reported
C16_Witness ==
    /\ pc = "done"
    /\ fetchFailedAt = 1
    /\ createCalls = << Call("failed", FALSE) >>
    /\ domainScans = << >>
    /\ responsesSent = 1
    /\ response.error = "Network Error"

\* the record of this domain was accepted from row r, counting the rows of the
\* fetched pages through, page after page
AcceptedAt(domain, r) ==
    LET rows == FlatRows(fetchLog)
    IN  /\ Usable(rows[r])
        /\ rows[r].domain = domain
        /\ \A q \in 1..(r - 1) : ~(Usable(rows[q]) /\ rows[q].domain = domain)

\* C17: the domains of a completed ScanResult are in discovery order: records
\* accepted from an earlier page precede those accepted from a later page, and
\* the records accepted from one page keep the order of their rows.
C17_DomainsInDiscoveryOrder ==
    \A k \in 1..Len(domainScans) :
        (Completed(k) /\ fallbackLog = << >>) =>
            LET d == domainScans[k].domains
                n == Len(FlatRows(fetchLog))
            IN  \A i, j \in 1..Len(d) :
                    i < j => \E r, q \in 1..n :
                                 /\ r < q
                                 /\ AcceptedAt(d[i].domain, r)
                                 /\ AcceptedAt(d[j].domain, q)

\* two records from the first page, then one from the second, whose other
\* row repeats a domain of the first page
C17_Witness ==
    /\ fetchLog = << PageB, PageA >>
    /\ Len(domainScans) = 1
    /\ Completed(1)
    /\ Len(domainScans[1].domains) = 3
    /\ domainScans[1].domains[1].owner = "carol"
    /\ domainScans[1].domains[2].owner = "heidi"
    /\ domainScans[1].domains[3].owner = "alice"

ProbeStarted == \E i \in 1..Len(probePc) : probePc[i] # "idle"

Domains(entries) == [ i \in 1..Len(entries) |-> entries[i].domain ]

\* C18: no probe is launched before the accumulated set is final: once the first
\* probe of a run has been started, no step adds a record to the set (or removes
\* one), so the persisted records are those the set held when probing began.
C18_SetIsFinalOnceProbingStarted ==
    [][ ProbeStarted => Domains(allDomainEntries') = Domains(allDomainEntries) ]_vars

\* probes ran over the records of two pages, and exactly those were stored
C18_Witness ==
    /\ ProbeStarted
    /\ Len(fetchLog) = 2
    /\ Len(domainScans) = 1
    /\ Completed(1)
    /\ Len(probePc) = 3
    /\ Domains(domainScans[1].domains) = Domains(allDomainEntries)

\* the page loop has been left without a fetch failure
LoopCompleted ==
    fetchFailedAt = 0 /\ pc \in {"launch", "join", "fallback", "save", "catch", "done"}

C20_OneDelayBetweenPages ==
    /\ pc = "pace" => page < pages
    /\ requests # << >> => delays = Len(requests) - 1
    /\ LoopCompleted => delays = pages - 1

\* a run over two pages has ended after a single delay
C20_Witness ==
    /\ pc = "done"
    /\ pages = 2
    /\ Len(fetchLog) = 2
    /\ fetchFailedAt = 0
    /\ delays = 1

-----------------------------------------------------------------------------
(* Properties of the probe fan-out (specification Spec) *)

Unchecked(i) == allDomainEntries[i].websiteStatus = "unchecked"

\* C21: all records are marked checking before the prober is invoked for any
\* record: at the moment the first probe is invoked, no record of the
\* accumulated set is still unchecked.
C21_AllMarkedBeforeFirstProbe ==
    ProbeStarted => \A i \in 1..Len(probePc) : ~Unchecked(i)

\* C21, as the code has it: each record is marked checking right before the
\* prober is invoked for it, record after record in the order of the set; when
\* the handler waits at the join, and so before any probe request has settled,
\* every probe has been invoked and no record is unchecked.
C21_EachMarkedBeforeItsProbe ==
    /\ \A i \in 1..Len(probePc) : probePc[i] # "idle" => ~Unchecked(i)
    /\ \A i, j \in 1..Len(probePc) : (i < j /\ probePc[j] # "idle") => probePc[i] # "idle"
    /\ pc = "join" => \A i \in 1..Len(probePc) : probePc[i] # "idle" /\ ~Unchecked(i)
    /\ \A i \in 1..Len(probePc) :
           attempts[i] # << >> => \A j \in 1..Len(probePc) : ~Unchecked(j)

\* three probes have been invoked, none has settled, all records are checking
C21_Witness ==
    /\ pc = "join"
    /\ Len(probePc) = 3
    /\ \A i \in 1..3 : /\ probePc[i] = "request"
                       /\ attempts[i] = << >>
                       /\ allDomainEntries[i].websiteStatus = "checking"

\* record j carries what its own probe returned
HasOwnResult(j) ==
    LET r == ProbeResult(j)
        e == allDomainEntries[j]
    IN  /\ e.websiteStatus = r.status
        /\ e.websiteError = r.error

\* C22: while probes are in flight, the websiteStatus and websiteError of a
\* record are written only by the probe task launched for that record: a step
\* changes a record only if that record's own task moves in it, a settled
\* record is never written again, and under every interleaving of the probe
\* completions each record ends with the result of its own probe.
C22_RecordWrittenByOwnProbeOnly ==
    [][ \A j \in 1..Len(probePc) :
            /\ (pc \in {"launch", "join"} /\ allDomainEntries'[j] # allDomainEntries[j]) =>
                   \/ probePc[j] = "idle" /\ probePc'[j] = "request"
                   \/ probePc[j] = "request" /\ attempts'[j] # attempts[j]
            /\ probePc[j] = "done" =>
                   /\ allDomainEntries'[j] = allDomainEntries[j]
                   /\ HasOwnResult(j) ]_vars

\* the probe launched second has settled first: its record has its result, the
\* record of the first probe is still checking after a failed HTTP attempt
C22_Witness ==
    /\ pc = "join"
    /\ probePc = << "request", "done" >>
    /\ Len(attempts[1]) = 1
    /\ allDomainEntries[1].websiteStatus = "checking"
    /\ allDomainEntries[2].websiteStatus = "broken"
    /\ allDomainEntries[2].websiteError = "HTTP 404"

-----------------------------------------------------------------------------
(* Properties of the row extraction and the link scan (specification Spec) *)

\* a row of one of the two known classes with at least 4 cells, a domain name
\* and a status
WellFormedRow(row) ==
    /\ row.cls = "trl" \/ row.cls = "trd"
    /\ row.cells >= 4
    /\ Len(row.domain) > 0
    /\ row.status # ""

WwwPrefix == <<"w", "w", "w", ".">>

StripWww(domain) ==
    IF startsWith(domain, WwwPrefix) THEN SubSeq(domain, 5, Len(domain)) ELSE domain

\* C24: every record the link scan emits has a domain without a leading "www."
\* and without the registry's own domain substrings; no two of them have the
\* same domain after the prefix is stripped; each has status, owner and age
\* "unknown" and host count 0.
C24_FallbackRecordsAreStripped ==
    fallbackLog # << >> =>
        /\ \A i \in 1..Len(allDomainEntries) :
               LET e == allDomainEntries[i]
               IN  /\ ~startsWith(e.domain, WwwPrefix)
                   /\ ~includes(e.domain, <<"f", "r", "e", "e", "d", "n", "s">>)
                   /\ ~includes(e.domain, <<"a", "f", "r", "a", "i", "d">>)
                   /\ e.status = "unknown"
                   /\ e.owner = "unknown"
                   /\ e.age = "unknown"
                   /\ e.hosts = 0
        /\ \A i, j \in 1..Len(allDomainEntries) :
               i # j => StripWww(allDomainEntries[i].domain)
                            # StripWww(allDomainEntries[j].domain)

-----------------------------------------------------------------------------
(* Properties of checkWebsiteStatus, continued (specification SpecCheckDomain) *)

ServerError(a) == GotResponse(a) /\ a.outcome.status >= 500

\* C25: a response with status >= 500 is never classified working and never
\* yields an "HTTP <status>" error; it counts as a failed attempt: 5xx on the
\* last scheme tried ends broken with "Connection failed", and after 5xx on
\* HTTP the result is the one the HTTPS attempt alone gives.
C25_ServerErrorIsFailedAttempt ==
    /\ \A n \in 1..Len(cdAttempts) :
           ServerError(cdAttempts[n]) =>
               /\ cdResponse.websiteError # HttpError(cdAttempts[n].outcome.status)
               /\ n = 1 => cdPc = "request" \/ Len(cdAttempts) = 2
               /\ n = 2 => /\ cdPc = "done"
                           /\ cdResponse.code = 200
                           /\ cdResponse.websiteStatus = "broken"
                           /\ cdResponse.websiteError = ConnectionFailedError
    /\ (cdPc = "done" /\ Len(cdAttempts) = 2 /\ ServerError(cdAttempts[1])) =>
           LET alone == AfterAttempt(<< HttpsUrl >>, 1, cdAttempts[2].outcome)
           IN  /\ cdAttempts[2].url = HttpsUrl
               /\ cdResponse.websiteStatus = alone.status
               /\ cdResponse.websiteError = alone.error
    /\ (Classified /\ cdResponse.websiteStatus = "working") =>
           ~ServerError(Last(cdAttempts))

\* 500 on HTTP, 503 on HTTPS: broken, connection failed
C25_Witness ==
    /\ cdPc = "done"
    /\ Len(cdAttempts) = 2
    /\ cdAttempts[1].outcome.status = 500
    /\ cdAttempts[2].outcome.status = 503
    /\ GotResponse(cdAttempts[1])
    /\ GotResponse(cdAttempts[2])
    /\ cdResponse.websiteError = ConnectionFailedError

-----------------------------------------------------------------------------
(* Properties of two interleaved scan runs (specification SpecTwoRuns) *)

\* the records of call r are those of the usable rows of the page it fetched,
\* one per domain, the first row winning
HoldsOwnRecords(r) ==
    LET rows == runs[r].fetched[1].rows
        e == runs[r].entries
    IN  /\ \A i \in 1..Len(e) :
               \E k \in 1..Len(rows) :
                   /\ Usable(rows[k])
                   /\ SameRegistryData(e[i], rows[k])
                   /\ \A q \in 1..(k - 1) :
                          ~(Usable(rows[q]) /\ rows[q].domain = rows[k].domain)
        /\ \A k \in 1..Len(rows) :
               Usable(rows[k]) => \E i \in 1..Len(e) : e[i].domain = rows[k].domain
        /\ \A i, j \in 1..Len(e) : i # j => e[i].domain # e[j].domain

\* every settled record of call r has the result of the requests made for it
HoldsOwnResults(r) ==
    \A i \in 1..Len(runs[r].probePc) :
        runs[r].probePc[i] = "done" =>
            LET a == runs[r].attempts[i]
                e == runs[r].entries[i]
                res == AfterAttempt(ProbeUrls(e.domain), Len(a), a[Len(a)].outcome)
            IN  e.websiteStatus = res.status /\ e.websiteError = res.error

\* C26: two scan runs whose steps interleave at their suspension points do not
\* share an accumulator: the scan each run stores holds exactly the records that
\* run discovered, with the results of that run's probes, and the two scans are
\* stored under distinct ids, neither overwriting the other.
C26_InterleavedRunsAreIsolated ==
    /\ \A r \in Runs :
           /\ runs[r].fetched # << >> => HoldsOwnRecords(r) /\ HoldsOwnResults(r)
           /\ runs[r].pc = "done" =>
                  /\ Len(runs[r].saved) = 1
                  /\ runs[r].saved[1].status = "completed"
                  /\ runs[r].saved[1].domains = runs[r].entries
                  /\ \E k \in 1..Len(domainScans) : domainScans[k] = runs[r].saved[1]
    /\ Len(domainScans) = Cardinality({ r \in Runs : runs[r].pc = "done" })
    /\ \A k, m \in 1..Len(domainScans) : k # m => domainScans[k].id # domainScans[m].id

\* both runs are done; each found b.io on its own page, with its own owner and
\* its own probe result, and the run started on the second page stored first
C26_Witness ==
    /\ runs[1].pc = "done" /\ runs[2].pc = "done"
    /\ runs[1].fetched = << PageA >>
    /\ runs[2].fetched = << PageB >>
    /\ domainScans = << runs[2].saved[1], runs[1].saved[1] >>
    /\ runs[1].entries[2].owner = "bob" /\ runs[1].entries[2].websiteStatus = "working"
    /\ runs[2].entries[1].owner = "carol" /\ runs[2].entries[1].websiteError = "HTTP 404"

-----------------------------------------------------------------------------
(* Termination of a scan run (specification SpecLive) *)

\* C27: if every page fetch, probe request and storage call eventually settles,
\* every scan run eventually gives the caller its outcome, for every number of
\* pages and of discovered domains: no run waits forever in the page loop or
\* at the probe join.
C27_EveryRunDeliversItsOutcome ==
    (pc # "idle") ~> (pc = "done" /\ responsesSent = 1)

\* a run over two pages with three probes has delivered its outcome
C27_Witness ==
    /\ pc = "done"
    /\ responsesSent = 1
    /\ pages = 2
    /\ Len(fetchLog) = 2
    /\ Len(probePc) = 3
    /\ \A i \in 1..3 : Len(attempts[i]) >= 1

====
